---- MODULE Spec2Model ----
(***************************************************************************)
(* A model of cvector.h: a type-erased growable array whose handle points  *)
(* at one heap allocation holding a header (size, capacity, element_size)  *)
(* followed by capacity * element_size bytes of element storage.           *)
(*                                                                         *)
(* The C heap is a function from addresses to blocks; a handle (a char *   *)
(* variable of the caller) holds an address or NULL.  Every C function is  *)
(* an operator over the memory m = [heap, abort, oob, room] as the code    *)
(* computes it, byte offsets included.  abort records a failed assert,     *)
(* oob a byte access outside the block's allocation.  What the allocator   *)
(* decides (where a block lands, what a fresh byte holds) is the oracle    *)
(* ch = [addr, junk] that the actions draw nondeterministically.           *)
(***************************************************************************)
EXTENDS Integers, Sequences, FiniteSets, TLC

\* ------------------------------------------------------------ bounds
\* The heap has room for MaxBytes bytes of element storage, all blocks together;
\* an allocation that needs more fails.
MaxBytes == 4
\* Width in bits of the modelled size_t (the arithmetic of the header fields).
SIZE_BITS == 8

\* sizeof(cvector_header): three size_t fields on an LP64 build.
HEADER_SIZE == 24

NULL == 0
\* the value a handle is left with once its block is freed: it is indeterminate
DANGLING == -1
Addr == {1, 2}
Byte == {0, 1}
ElemSizes == {1, 2}
Handle == {"a", "b"}

RECURSIVE Pow2(_)
Pow2(n) == IF n = 0 THEN 1 ELSE 2 * Pow2(n - 1)
SizeMod == Pow2(SIZE_BITS)
\* size_t arithmetic is modulo 2^SIZE_BITS.
SizeT(x) == x % SizeMod

\* ------------------------------------------------------------ the heap
Dead == [live |-> FALSE, size |-> 0, capacity |-> 0, element_size |-> 0,
         len |-> 0, mem |-> <<>>]

\* what the allocator decides: where the block lands, and the byte that fresh
\* memory holds (one value for all fresh bytes of a call)
Oracle == [addr : Addr, junk : Byte]

FreeAddrs(m) == {x \in Addr : ~m.heap[x].live}

RECURSIVE SumLen(_, _)
SumLen(hp, S) ==
    IF S = {} THEN 0
    ELSE LET x == CHOOSE y \in S : TRUE IN Len(hp[x].mem) + SumLen(hp, S \ {x})
\* element bytes held by the live blocks other than p
UsedBut(m, p) == SumLen(m.heap, Addr \ {p})
Fits(m, p, n) == n >= HEADER_SIZE /\ UsedBut(m, p) + (n - HEADER_SIZE) <= m.room

\* a pointer into a block: the block's address and a byte offset from it
Ptr(base, off) == [base |-> base, off |-> off]
NULLPTR == Ptr(NULL, 0)

\* malloc(n): the block lands at ch.addr, its bytes are whatever was there.
\* The header of a fresh block is written by every caller before it is read.
malloc(m, n, ch) ==
    IF ~Fits(m, NULL, n) \/ ch.addr \notin FreeAddrs(m)
    THEN [m |-> m, ret |-> NULL]
    ELSE [m |-> [m EXCEPT !.heap[ch.addr] =
                    [live |-> TRUE, size |-> 0, capacity |-> 0, element_size |-> 0,
                     len |-> n,
                     mem |-> [i \in 1..(n - HEADER_SIZE) |-> ch.junk]]],
          ret |-> ch.addr]

\* realloc(p, n): the first min(old, n) bytes are kept, the block stays at p or
\* moves to a free address (p is then released), new bytes are junk.
realloc(m, p, n, ch) ==
    IF ~Fits(m, p, n) \/ ch.addr \notin (FreeAddrs(m) \cup {p})
    THEN [m |-> m, ret |-> NULL]
    ELSE LET old == m.heap[p]
             new == [old EXCEPT !.len = n,
                        !.mem = [i \in 1..(n - HEADER_SIZE) |->
                                    IF i <= Len(old.mem) THEN old.mem[i]
                                                          ELSE ch.junk]]
             h1  == [m.heap EXCEPT ![p] = Dead]
         IN  [m |-> [m EXCEPT !.heap = [h1 EXCEPT ![ch.addr] = new]],
              ret |-> ch.addr]

free(m, p) == [m EXCEPT !.heap[p] = Dead]

\* The bytes of block vec at absolute offsets off .. off+n-1; a byte outside
\* the allocation reads as 0 and the access is out of bounds.
InBlock(m, vec, off, n) ==
    n = 0 \/ (off >= HEADER_SIZE /\ off + n <= m.heap[vec].len)
Load(m, vec, off, n) ==
    [k \in 1..n |->
        LET i == off - HEADER_SIZE + k
        IN  IF i \in 1..Len(m.heap[vec].mem) THEN m.heap[vec].mem[i] ELSE 0]
\* Writes bytes at absolute offset off of block vec; the part outside the
\* allocation is dropped and the write recorded as out of bounds.
Store(m, vec, off, bytes) ==
    LET blk == m.heap[vec]
        new == [i \in 1..Len(blk.mem) |->
                   LET k == i - (off - HEADER_SIZE)
                   IN  IF k \in 1..Len(bytes) THEN bytes[k] ELSE blk.mem[i]]
    IN  [m EXCEPT !.heap[vec].mem = new,
                  !.oob = m.oob \/ ~InBlock(m, vec, off, Len(bytes))]
memcpy(m, vec, off, bytes) == Store(m, vec, off, bytes)
\* faulty variant of memmove: a byte-by-byte forward copy, which is not safe
\* when the destination overlaps the source from above
RECURSIVE ForwardCopy(_, _, _, _, _, _)
ForwardCopy(m, vec, dst, src, n, k) ==
    IF k >= n THEN m
    ELSE ForwardCopy(Store(m, vec, dst + k, Load(m, vec, src + k, 1)), vec, dst, src, n, k + 1)
memmove_forward(m, vec, dst, src, n) == ForwardCopy(m, vec, dst, src, n, 0)
memmove(m, vec, dst, src, n) ==
    LET m1 == Store(m, vec, dst, Load(m, vec, src, n))
    IN  [m1 EXCEPT !.oob = m1.oob \/ ~InBlock(m, vec, src, n)]

\* ------------------------------------------------------------ accessors
cvector_capacity(m, vec) == m.heap[vec].capacity
cvector_size(m, vec) == m.heap[vec].size
cvector_element_size(m, vec) == m.heap[vec].element_size
cvector_empty(m, vec) == cvector_size(m, vec) = 0
cvector_set_capacity(m, vec, new_capacity) ==
    [m EXCEPT !.heap[vec].capacity = new_capacity]
cvector_set_size(m, vec, new_size) == [m EXCEPT !.heap[vec].size = new_size]

\* the result of a function that takes char **vec: the memory and *vec
Res(m, vec) == [m |-> m, vec |-> vec]
Abort(m) == [m EXCEPT !.abort = TRUE]

\* ------------------------------------------------------------ growth engine
\* faulty variant: the new capacity is stored into the element_size field
cvector_grow_wrong_field(m, vec, new_capacity, ch) ==
    LET NEW_SIZE == SizeT(HEADER_SIZE + (new_capacity * cvector_element_size(m, vec)))
        r == realloc(m, vec, NEW_SIZE, ch)
    IN  IF r.ret = NULL
        THEN Res(Abort(m), vec)
        ELSE Res([r.m EXCEPT !.heap[r.ret].element_size = new_capacity], r.ret)
cvector_grow(m, vec, new_capacity, ch) ==
    LET NEW_SIZE == SizeT(HEADER_SIZE + (new_capacity * cvector_element_size(m, vec)))
        r == realloc(m, vec, NEW_SIZE, ch)
    IN  IF r.ret = NULL
        THEN Res(Abort(m), vec)
        ELSE Res(cvector_set_capacity(r.m, r.ret, new_capacity), r.ret)

\* faulty variant: reallocates to new_capacity without comparing capacities
cvector_reserve_always(m, vec, new_capacity, ch) ==
    cvector_grow(m, vec, new_capacity, ch)
cvector_reserve(m, vec, new_capacity, ch) ==
    IF cvector_capacity(m, vec) < new_capacity
    THEN cvector_grow(m, vec, new_capacity, ch)
    ELSE Res(m, vec)

\* faulty variant: the reserve is taken on a successful malloc (if (vec))
cvector_init_reserving(m, capacity, element_size, ch) ==
    LET r == malloc(m, HEADER_SIZE, ch)
    IN  IF r.ret = NULL
        THEN Res(Abort(m), NULL)
        ELSE cvector_reserve([r.m EXCEPT !.heap[r.ret].capacity = 0,
                                         !.heap[r.ret].size = 0,
                                         !.heap[r.ret].element_size = element_size],
                             r.ret, capacity, ch)
\* The capacity argument is unused: the reserve sits behind if (!vec), which
\* a successful malloc never takes.  A failed malloc is dereferenced at once.
cvector_init(m, capacity, element_size, ch) ==
    LET r == malloc(m, HEADER_SIZE, ch)
    IN  IF r.ret = NULL
        THEN Res(Abort(m), NULL)
        ELSE Res([r.m EXCEPT !.heap[r.ret].capacity = 0,
                             !.heap[r.ret].size = 0,
                             !.heap[r.ret].element_size = element_size],
                 r.ret)

\* faulty variants: linear growth; the shift alone, which keeps 0 at 0
cvector_compute_next_grow_by_one(size) == SizeT(size + 1)
cvector_compute_next_grow_shift(size) == SizeT(size * 2)
cvector_compute_next_grow(size) == IF size # 0 THEN SizeT(size * 2) ELSE 1

\* faulty variant: reallocates to the capacity, not to the size
cvector_shrink_to_fit_capacity(m, vec, ch) ==
    cvector_grow(m, vec, cvector_capacity(m, vec), ch)
cvector_shrink_to_fit(m, vec, ch) ==
    LET vec_size == cvector_size(m, vec)
    IN  cvector_grow(m, vec, vec_size, ch)

\* ------------------------------------------------------------ element operations
\* faulty variant: the bounds test lets index == size through
cvector_remove_inclusive(m, vec, index) ==
    IF vec = NULL THEN m
    ELSE LET vector_size == cvector_size(m, vec)
         IN  IF index > vector_size THEN m
             ELSE LET new_size == SizeT(vector_size - 1)
                      m1 == cvector_set_size(m, vec, new_size)
                      element_size == cvector_element_size(m1, vec)
                      min == HEADER_SIZE + index * element_size
                      max == min + element_size
                      length == (new_size - index) * element_size
                  IN  memmove(m1, vec, min, max, length)
cvector_remove(m, vec, index) ==
    IF vec = NULL THEN m
    ELSE LET vector_size == cvector_size(m, vec)
         IN  IF index >= vector_size THEN m
             ELSE LET new_size == vector_size - 1
                      m1 == cvector_set_size(m, vec, new_size)
                      element_size == cvector_element_size(m1, vec)
                      array_size == index * element_size
                      size == HEADER_SIZE + array_size
                      min == size
                      max == min + element_size
                      length == (new_size - index) * element_size
                  IN  memmove(m1, vec, min, max, length)

cvector_clear(m, vec) == cvector_set_size(m, vec, 0)

cvector_free(m, vec) == free(m, vec)

\* faulty variant: grows one element too late
AtCapacity_lt(capacity, size) == capacity < size
\* the growth test shared by push_back and insert
AtCapacity(capacity, size) == capacity <= size

cvector_push_back(m, vec, value, ch) ==
    LET current_capacity == cvector_capacity(m, vec)
        g == IF AtCapacity(current_capacity, cvector_size(m, vec))
             THEN cvector_grow(m, vec, cvector_compute_next_grow(current_capacity), ch)
             ELSE Res(m, vec)
    IN  IF g.m.abort THEN g
        ELSE LET current_element ==
                     HEADER_SIZE + (cvector_element_size(g.m, g.vec) * cvector_size(g.m, g.vec))
                 m1 == memcpy(g.m, g.vec, current_element, value)
             IN  Res(cvector_set_size(m1, g.vec, SizeT(cvector_size(m1, g.vec) + 1)), g.vec)

cvector_insert(m, vec, index, fortran_data, ch) ==
    LET vec_capacity == cvector_capacity(m, vec)
        g == IF AtCapacity(vec_capacity, cvector_size(m, vec))
             THEN cvector_grow(m, vec, cvector_compute_next_grow(vec_capacity), ch)
             ELSE Res(m, vec)
    IN  IF g.m.abort THEN g
        ELSE LET current_size == cvector_size(g.m, g.vec)
                 element_size == cvector_element_size(g.m, g.vec)
                 min == HEADER_SIZE + (index * element_size)
                 max == min + element_size
                 length == (current_size - index) * element_size
                 m1 == IF index < current_size
                       THEN memmove(g.m, g.vec, max, min, length)
                       ELSE g.m
                 m2 == memcpy(m1, g.vec, HEADER_SIZE + (element_size * index), fortran_data)
             IN  Res(cvector_set_size(m2, g.vec, SizeT(current_size + 1)), g.vec)

\* faulty variant: an emptiness check the code does not have
cvector_pop_back_checked(m, vec) ==
    IF cvector_size(m, vec) = 0
    THEN m
    ELSE cvector_set_size(m, vec, SizeT(cvector_size(m, vec) - 1))
cvector_pop_back(m, vec) ==
    cvector_set_size(m, vec, SizeT(cvector_size(m, vec) - 1))

\* faulty variant: a shallow copy, the destination handle is pointed at the
\* source's block
cvector_clone_alias(m, from, ch) == Res(m, from)
\* malloc of the source's footprint, then a copy of header and element bytes.
cvector_clone(m, from, ch) ==
    LET heap_size == SizeT(HEADER_SIZE + (cvector_capacity(m, from) * cvector_element_size(m, from)))
        r == malloc(m, heap_size, ch)
        src == m.heap[from]
    IN  IF r.ret = NULL
        THEN Res(Abort(m), NULL)
        ELSE LET m1 == [r.m EXCEPT !.heap[r.ret].size = src.size,
                                   !.heap[r.ret].capacity = src.capacity,
                                   !.heap[r.ret].element_size = src.element_size]
                 m2 == Store(m1, r.ret, HEADER_SIZE,
                             Load(m, from, HEADER_SIZE, heap_size - HEADER_SIZE))
             IN  Res([m2 EXCEPT !.oob = m2.oob \/ heap_size > src.len], r.ret)

\* other is the char ** itself: hasOther is FALSE when that pointer is null.
\* The handles are exchanged whatever *other holds.
cvector_swap(vec, hasOther, other) ==
    IF hasOther THEN [vec |-> other, other |-> vec]
                ELSE [vec |-> vec, other |-> other]

\* faulty variant: index = size passes the bounds test
cvector_get_inclusive(m, vec, index) ==
    IF index < 0 \/ index > cvector_size(m, vec)
    THEN NULLPTR
    ELSE Ptr(vec, HEADER_SIZE + (index * cvector_element_size(m, vec)))
cvector_get(m, vec, index) ==
    IF index < 0 \/ index >= cvector_size(m, vec)
    THEN NULLPTR
    ELSE Ptr(vec, HEADER_SIZE + (index * cvector_element_size(m, vec)))

cvector_set(m, vec, index, fortran_data) ==
    LET element_size == cvector_element_size(m, vec)
    IN  memcpy(m, vec, HEADER_SIZE + (element_size * index), fortran_data)

cvector_front(m, vec) ==
    IF cvector_size(m, vec) > 0 THEN cvector_get(m, vec, 0) ELSE NULLPTR

cvector_back(m, vec) ==
    IF cvector_size(m, vec) > 0
    THEN cvector_get(m, vec, cvector_size(m, vec) - 1)
    ELSE NULLPTR

\* the two loops of cvector_resize; old_size is the loop's own counter
RECURSIVE ResizePush(_, _, _, _, _, _)
ResizePush(m, vec, old_size, new_size, value, ch) ==
    IF m.abort \/ ~(old_size < new_size) THEN Res(m, vec)
    ELSE LET r == cvector_push_back(m, vec, value, ch)
         IN  ResizePush(r.m, r.vec, old_size + 1, new_size, value, ch)

\* faulty variant: the shrink loop running once too often
RECURSIVE ResizePop_le(_, _, _, _)
ResizePop_le(m, vec, old_size, new_size) ==
    IF ~(new_size <= old_size) THEN m
    ELSE ResizePop_le(cvector_pop_back(m, vec), vec, old_size - 1, new_size)

RECURSIVE ResizePop(_, _, _, _)
ResizePop(m, vec, old_size, new_size) ==
    IF ~(new_size < old_size) THEN m
    ELSE ResizePop(cvector_pop_back(m, vec), vec, old_size - 1, new_size)

cvector_resize(m, vec, new_size, value, ch) ==
    LET old_size == m.heap[vec].size
    IN  IF new_size > old_size
        THEN LET r == cvector_reserve(m, vec, new_size, ch)
             IN  IF r.m.abort THEN r
                 ELSE ResizePush(cvector_set_size(r.m, r.vec, 0), r.vec,
                                 old_size, new_size, value, ch)
        ELSE Res(ResizePop(m, vec, old_size, new_size), vec)


\* ------------------------------------------------------------ state
VARIABLES
    heap,    \* the C heap: address -> block
    h,       \* the caller's handles (char *): handle -> address, NULL or DANGLING
    oob,     \* some byte access so far fell outside its block
    ret,     \* what the last call returned, when it was a cvector_get
    pc       \* the caller's position, when the caller is a fixed program

vars == <<heap, h, oob, ret, pc>>

M == [heap |-> heap, abort |-> FALSE, oob |-> oob, room |-> MaxBytes]
Live(hd) == h[hd] \in Addr
Blk(hd) == heap[h[hd]]
Values(hd) == [1..Blk(hd).element_size -> Byte]
Indices == 0..MaxBytes
Counts == 0..MaxBytes
NoRet == [got |-> FALSE, ptr |-> NULLPTR]

\* the allocator's choices for a call on block p, and for a call that only
\* allocates (cvector_init, cvector_clone: every fresh byte is overwritten or
\* there is none, so one junk value stands for all)
OracleAt(p) == {ch \in Oracle : ch.addr \in FreeAddrs(M) \cup {p}}
OracleNew == {ch \in Oracle : ch.addr \in FreeAddrs(M) /\ ch.junk = 0}

\* a call through char **vec returned r: the memory and the handle follow
Commit(hd, r) ==
    /\ ~r.m.abort
    /\ heap' = r.m.heap
    /\ oob' = r.m.oob
    /\ h' = [h EXCEPT ![hd] = r.vec]
    /\ ret' = NoRet
    /\ pc' = pc
\* a call through char *vec returned memory m1
CommitM(m1) ==
    /\ heap' = m1.heap
    /\ oob' = m1.oob
    /\ h' = h
    /\ ret' = NoRet
    /\ pc' = pc

Init ==
    /\ heap = [x \in Addr |-> Dead]
    /\ h = [hd \in Handle |-> NULL]
    /\ oob = FALSE
    /\ ret = NoRet
    /\ pc = 0

\* hd = cvector_init(capacity, element_size), into a handle that owns nothing
\* (the caller does not overwrite, and so leak, a live vector)
DoInit(hd) ==
    /\ ~Live(hd)
    /\ \E r \in {cvector_init(M, capacity, element_size, ch) :
                    capacity \in Counts, element_size \in ElemSizes, ch \in OracleNew} :
          Commit(hd, r)

DoReserve(hd) ==
    /\ Live(hd)
    /\ \E r \in {cvector_reserve(M, h[hd], new_capacity, ch) :
                    new_capacity \in Counts, ch \in OracleAt(h[hd])} :
          Commit(hd, r)

DoPushBack(hd) ==
    /\ Live(hd)
    /\ \E r \in {cvector_push_back(M, h[hd], value, ch) :
                    value \in Values(hd), ch \in OracleAt(h[hd])} :
          Commit(hd, r)

\* in contract: size > 0
DoPopBack(hd) ==
    /\ Live(hd)
    /\ Blk(hd).size > 0
    /\ CommitM(cvector_pop_back(M, h[hd]))

\* in contract: index <= size
DoInsert(hd) ==
    /\ Live(hd)
    /\ \E r \in {cvector_insert(M, h[hd], index, value, ch) :
                    index \in 0..Blk(hd).size, value \in Values(hd),
                    ch \in OracleAt(h[hd])} :
          Commit(hd, r)

\* any index, and a null handle too: the code checks both
DoRemove(hd) ==
    /\ h[hd] # DANGLING
    /\ \E index \in Indices : CommitM(cvector_remove(M, h[hd], index))

\* in contract: index < size
DoSet(hd) ==
    /\ Live(hd)
    /\ \E index \in 0..(Blk(hd).size - 1), value \in Values(hd) :
          CommitM(cvector_set(M, h[hd], index, value))

DoClear(hd) ==
    /\ Live(hd)
    /\ CommitM(cvector_clear(M, h[hd]))

DoResize(hd) ==
    /\ Live(hd)
    /\ \E r \in {cvector_resize(M, h[hd], new_size, value, ch) :
                    new_size \in Counts, value \in Values(hd), ch \in OracleAt(h[hd])} :
          Commit(hd, r)

DoShrinkToFit(hd) ==
    /\ Live(hd)
    /\ \E r \in {cvector_shrink_to_fit(M, h[hd], ch) : ch \in OracleAt(h[hd])} :
          Commit(hd, r)

\* cvector_clone(from, &to): to must hold NULL
DoClone(from, to) ==
    /\ Live(from)
    /\ h[to] = NULL
    /\ \E r \in {cvector_clone(M, h[from], ch) : ch \in OracleNew} : Commit(to, r)

\* cvector_swap(&hd, &other): other holds a block or NULL
DoSwap(hd, other) ==
    /\ Live(hd)
    /\ h[other] # DANGLING
    /\ LET r == cvector_swap(h[hd], TRUE, h[other])
       IN  h' = [[h EXCEPT ![hd] = r.vec] EXCEPT ![other] = r.other]
    /\ ret' = NoRet
    /\ UNCHANGED <<heap, oob, pc>>

\* cvector_swap(&hd, NULL)
DoSwapNone(hd) ==
    /\ Live(hd)
    /\ LET r == cvector_swap(h[hd], FALSE, NULL)
       IN  h' = [h EXCEPT ![hd] = r.vec]
    /\ ret' = NoRet
    /\ UNCHANGED <<heap, oob, pc>>

\* the block is released; the caller's handle is left dangling
DoFree(hd) ==
    /\ Live(hd)
    /\ heap' = cvector_free(M, h[hd]).heap
    /\ h' = [h EXCEPT ![hd] = DANGLING]
    /\ ret' = NoRet
    /\ UNCHANGED <<oob, pc>>

DoGet(hd) ==
    /\ Live(hd)
    /\ \E index \in Indices :
          ret' = [got |-> TRUE, ptr |-> cvector_get(M, h[hd], index)]
    /\ UNCHANGED <<heap, h, oob, pc>>

\* the calls that write: everything but cvector_get
NextMut ==
    \E hd \in Handle :
        \/ DoInit(hd)
        \/ DoReserve(hd)
        \/ DoPushBack(hd)
        \/ DoPopBack(hd)
        \/ DoInsert(hd)
        \/ DoRemove(hd)
        \/ DoSet(hd)
        \/ DoClear(hd)
        \/ DoResize(hd)
        \/ DoShrinkToFit(hd)
        \/ \E to \in Handle \ {hd} : DoClone(hd, to)
        \/ \E other \in Handle : DoSwap(hd, other)
        \/ DoSwapNone(hd)
        \/ DoFree(hd)

Next ==
    \/ NextMut
    \/ \E hd \in Handle : DoGet(hd)

Spec == Init /\ [][Next]_vars

\* runs of the writing calls alone; a cvector_get between them changes nothing
\* they read
SpecMut == Init /\ [][NextMut]_vars

\* runs that only create vectors and append to them
NextPush ==
    \E hd \in Handle :
        \/ DoInit(hd)
        \/ DoPushBack(hd)

SpecPush == Init /\ [][NextPush]_vars

\* ------------------------------------------------------------ any size_t argument
\* cvector_reserve takes any size_t.  SizeArgs samples the type: the small
\* counts and 2^(SIZE_BITS-1), the least count whose byte size wraps for
\* two-byte elements.  A call that accessed bytes outside an allocation has
\* undefined behaviour: the runs end there.
SizeArgs == Counts \cup {SizeMod \div 2}

DoReserveAny(hd) ==
    /\ Live(hd)
    /\ \E r \in {cvector_reserve(M, h[hd], new_capacity, ch) :
                    new_capacity \in SizeArgs, ch \in OracleAt(h[hd])} :
          Commit(hd, r)

\* no call so far has accessed bytes outside an allocation
Defined == ~oob

NextAny ==
    \E hd \in Handle :
        \/ Defined /\ DoInit(hd)
        \/ Defined /\ DoReserveAny(hd)
        \/ Defined /\ DoPushBack(hd)
        \/ Defined /\ DoPopBack(hd)
        \/ Defined /\ DoInsert(hd)
        \/ Defined /\ DoRemove(hd)
        \/ Defined /\ DoResize(hd)

SpecAny == Init /\ [][NextAny]_vars

\* ------------------------------------------------------------ an unchecked pop
\* A caller that does not test for emptiness before cvector_pop_back.  What
\* follows a pop on an empty vector is undefined for the caller: the runs end
\* there.
DoPopBackAny(hd) ==
    /\ Live(hd)
    /\ CommitM(cvector_pop_back(M, h[hd]))

\* no vector has been popped while empty
NoUnderflow == \A hd \in Handle : Live(hd) => Blk(hd).size <= Blk(hd).capacity

NextPop ==
    \E hd \in Handle :
        \/ NoUnderflow /\ DoInit(hd)
        \/ NoUnderflow /\ DoPushBack(hd)
        \/ NoUnderflow /\ DoPopBackAny(hd)

SpecPop == Init /\ [][NextPop]_vars

\* ------------------------------------------------------------ a fixed caller
\* The program
\*     v = cvector_init(c, sizeof(int));
\*     cvector_push_back(&v, &x); cvector_push_back(&v, &y); cvector_push_back(&v, &z);
\*     cvector_get(v, 1); cvector_remove(v, 0); cvector_insert(&v, 0, &w);
\*     cvector_clone(v, &u);   /* u == NULL before */
\*     cvector_free(&v);
\* on four-byte ints x, y, z, w.  pc.at counts the calls made, pc.args holds
\* <<x, y, z, w>>.  v is handle "a", u is handle "b".
\* the object representation of a small int (little-endian, 32 bits)
IntBytes(x) == <<x % 256, (x \div 256) % 256, 0, 0>>
ScnArgs == {1, 2, 3, 9}
\* a heap with room for two buffers of four ints
MS == [heap |-> heap, abort |-> FALSE, oob |-> oob, room |-> 2 * 4 * Len(IntBytes(0))]

InitScn ==
    /\ heap = [x \in Addr |-> Dead]
    /\ h = [hd \in Handle |-> NULL]
    /\ oob = FALSE
    /\ ret = NoRet
    /\ pc \in [at : {0}, args : [1..4 -> ScnArgs]]

ScnCommit(hd, r) ==
    /\ ~r.m.abort
    /\ heap' = r.m.heap
    /\ oob' = r.m.oob
    /\ h' = [h EXCEPT ![hd] = r.vec]
    /\ ret' = NoRet
    /\ pc' = [pc EXCEPT !.at = pc.at + 1]

ScnInit ==
    /\ pc.at = 0
    /\ \E r \in {cvector_init(MS, capacity, Len(IntBytes(0)), ch) :
                    capacity \in Counts, ch \in OracleNew} :
          ScnCommit("a", r)

ScnPushBack ==
    /\ pc.at \in 1..3
    /\ \E r \in {cvector_push_back(MS, h["a"], IntBytes(pc.args[pc.at]), ch) :
                    ch \in OracleAt(h["a"])} :
          ScnCommit("a", r)

ScnGet ==
    /\ pc.at = 4
    /\ ret' = [got |-> TRUE, ptr |-> cvector_get(MS, h["a"], 1)]
    /\ pc' = [pc EXCEPT !.at = 5]
    /\ UNCHANGED <<heap, h, oob>>

ScnRemove ==
    /\ pc.at = 5
    /\ ScnCommit("a", Res(cvector_remove(MS, h["a"], 0), h["a"]))

ScnInsert ==
    /\ pc.at = 6
    /\ \E r \in {cvector_insert(MS, h["a"], 0, IntBytes(pc.args[4]), ch) :
                    ch \in OracleAt(h["a"])} :
          ScnCommit("a", r)

ScnClone ==
    /\ pc.at = 7
    /\ h["b"] = NULL
    /\ \E r \in {cvector_clone(MS, h["a"], ch) : ch \in OracleNew} :
          ScnCommit("b", r)

ScnFree ==
    /\ pc.at = 8
    /\ ScnCommit("a", Res(cvector_free(MS, h["a"]), DANGLING))

NextScn ==
    \/ ScnInit
    \/ ScnPushBack
    \/ ScnGet
    \/ ScnRemove
    \/ ScnInsert
    \/ ScnClone
    \/ ScnFree

SpecScenario == InitScn /\ [][NextScn]_vars

\* ------------------------------------------------------------ views
Elem(blk, i) == SubSeq(blk.mem, i * blk.element_size + 1, (i + 1) * blk.element_size)
Elems(blk) == [i \in 1..blk.size |-> Elem(blk, i - 1)]

TypeOK ==
    /\ \A x \in Addr : heap[x].live =>
          /\ heap[x].element_size \in ElemSizes
          /\ heap[x].size \in 0..MaxBytes
          /\ heap[x].capacity \in 0..MaxBytes
          /\ Len(heap[x].mem) = heap[x].len - HEADER_SIZE
    /\ \A hd \in Handle : Live(hd) => heap[h[hd]].live
    /\ \A hd, o \in Handle : (hd # o /\ Live(hd) /\ Live(o)) => h[hd] # h[o]

\* ------------------------------------------------------------ claims
Ok(r) == ~r.m.abort
Max(x, y) == IF x >= y THEN x ELSE y

\* C1: after every call that respects its precondition, every vector has
\* size <= capacity.
C1_SizeWithinCapacity ==
    \A hd \in Handle : Live(hd) => Blk(hd).size <= Blk(hd).capacity
\* a full vector of at least two elements beside a second live vector
C1_Witness ==
    \E hd \in Handle, o \in Handle :
        /\ hd # o /\ Live(hd) /\ Live(o)
        /\ Blk(hd).size = Blk(hd).capacity /\ Blk(hd).size >= 2
        /\ Blk(o).size < Blk(o).capacity

\* C2: resize(new_size, v) with new_size > size leaves size = new_size,
\* whatever the size before.
C2_ResizeReachesNewSize ==
    \A hd \in Handle : Live(hd) =>
        \A new_size \in Counts, value \in Values(hd), ch \in OracleAt(h[hd]) :
            LET r == cvector_resize(M, h[hd], new_size, value, ch)
            IN  (new_size > Blk(hd).size /\ Ok(r)) =>
                    cvector_size(r.m, r.vec) = new_size

\* C3 as stated: for every vector and value, push_back(v) then pop_back()
\* restores size and capacity, a full vector (size = capacity) included.
C3_PushPopRestoresBoth ==
    \A hd \in Handle : Live(hd) =>
        \A value \in Values(hd), ch \in OracleAt(h[hd]) :
            LET r == cvector_push_back(M, h[hd], value, ch)
                m2 == cvector_pop_back(r.m, r.vec)
            IN  Ok(r) => /\ cvector_size(m2, r.vec) = Blk(hd).size
                         /\ cvector_capacity(m2, r.vec) = Blk(hd).capacity
\* C3 amended: push_back(v) then pop_back() restores size; it restores
\* capacity when size < capacity held before, and leaves capacity at
\* max(1, 2 * capacity) when the vector was full.
C3_PushPopRestoresSize ==
    \A hd \in Handle : Live(hd) =>
        \A value \in Values(hd), ch \in OracleAt(h[hd]) :
            LET r == cvector_push_back(M, h[hd], value, ch)
                m2 == cvector_pop_back(r.m, r.vec)
            IN  Ok(r) => /\ cvector_size(m2, r.vec) = Blk(hd).size
                         /\ cvector_capacity(m2, r.vec) =
                               IF Blk(hd).size < Blk(hd).capacity
                               THEN Blk(hd).capacity
                               ELSE Max(1, 2 * Blk(hd).capacity)
\* a full vector of two elements whose push_back grows it to capacity 4, and
\* the pop_back after it leaves it there
C3_Witness ==
    \E hd \in Handle :
        /\ Live(hd)
        /\ Blk(hd).size = 2 /\ Blk(hd).capacity = 2
        /\ \E value \in Values(hd), ch \in OracleAt(h[hd]) :
              LET r == cvector_push_back(M, h[hd], value, ch)
              IN  Ok(r) /\ cvector_capacity(cvector_pop_back(r.m, r.vec), r.vec) = 4

\* C4: insert(i, v) then remove(i), for any 0 <= i <= size, leaves the size
\* and the elements [0, size) as they were.
C4_InsertRemoveRestores ==
    \A hd \in Handle : Live(hd) =>
        \A index \in 0..Blk(hd).size, value \in Values(hd), ch \in OracleAt(h[hd]) :
            LET r == cvector_insert(M, h[hd], index, value, ch)
                m2 == cvector_remove(r.m, r.vec, index)
            IN  Ok(r) => /\ cvector_size(m2, r.vec) = Blk(hd).size
                         /\ Elems(m2.heap[r.vec]) = Elems(Blk(hd))
\* a vector of three distinct-looking elements where an insert in the middle
\* has to shift two of them
C4_Witness ==
    \E hd \in Handle :
        /\ Live(hd) /\ Blk(hd).size = 3 /\ Blk(hd).capacity = 4
        /\ Elem(Blk(hd), 1) # Elem(Blk(hd), 2)
        /\ \E value \in Values(hd), ch \in OracleAt(h[hd]) :
              LET r == cvector_insert(M, h[hd], 1, value, ch)
                  m2 == cvector_remove(r.m, r.vec, 1)
              IN  /\ Ok(r) /\ cvector_size(r.m, r.vec) = 4
                  /\ Elem(r.m.heap[r.vec], 1) = value
                  /\ value # Elem(Blk(hd), 1)
                  /\ Elems(m2.heap[r.vec]) = Elems(Blk(hd))

\* C5: swap(a, b) where b holds no buffer leaves a referring to its buffer,
\* not null.
C5_SwapWithNullKeepsFirst ==
    \A hd \in Handle, other \in Handle :
        (hd # other /\ Live(hd) /\ h[other] = NULL) =>
            LET r == cvector_swap(h[hd], TRUE, h[other])
            IN  r.vec = h[hd] /\ r.vec # NULL

\* the memories that the in-contract calls on block vec of memory m can leave
\* (a call that aborts leaves none), cvector_free included
ValuesOf(m, vec) == [1..m.heap[vec].element_size -> Byte]
GrowingCallsOn(m, vec) ==
    {r \in
        {cvector_reserve(m, vec, n, ch) : n \in Counts, ch \in Oracle}
        \cup {cvector_push_back(m, vec, v, ch) : v \in ValuesOf(m, vec), ch \in Oracle}
        \cup {cvector_insert(m, vec, i, v, ch) :
                 i \in 0..m.heap[vec].size, v \in ValuesOf(m, vec), ch \in Oracle}
        \cup {cvector_resize(m, vec, n, v, ch) :
                 n \in Counts, v \in ValuesOf(m, vec), ch \in Oracle} :
     Ok(r)}
InPlaceCallsOn(m, vec) ==
    {cvector_remove(m, vec, i) : i \in Indices}
    \cup {cvector_set(m, vec, i, v) : i \in 0..(m.heap[vec].size - 1), v \in ValuesOf(m, vec)}
    \cup {cvector_clear(m, vec)}
    \cup (IF m.heap[vec].size > 0 THEN {cvector_pop_back(m, vec)} ELSE {})
ShrinkCallsOn(m, vec) ==
    {r \in {cvector_shrink_to_fit(m, vec, ch) : ch \in Oracle} : Ok(r)}

\* C6: no call other than shrink_to_fit (push_back, insert, reserve, resize,
\* pop_back, remove, clear, set) leaves the vector with a smaller capacity than
\* it had before the call.
C6_CapacityNeverDecreases ==
    \A hd \in Handle : Live(hd) =>
        /\ \A r \in GrowingCallsOn(M, h[hd]) :
              cvector_capacity(r.m, r.vec) >= Blk(hd).capacity
        /\ \A m1 \in InPlaceCallsOn(M, h[hd]) :
              cvector_capacity(m1, h[hd]) >= Blk(hd).capacity
\* an emptied vector that kept a capacity of at least two, where a reserve
\* for less and a resize to less are both possible calls
C6_Witness ==
    \E hd \in Handle :
        /\ Live(hd) /\ Blk(hd).size = 0 /\ Blk(hd).capacity >= 2
        /\ \E r \in GrowingCallsOn(M, h[hd]) :
              cvector_capacity(r.m, r.vec) > Blk(hd).capacity

RECURSIVE CeilPow2From(_, _)
CeilPow2From(p, n) == IF p >= n THEN p ELSE CeilPow2From(2 * p, n)
\* the smallest power of two >= n, for n >= 1
CeilPow2(n) == CeilPow2From(1, n)

\* C7: in a run of push_backs on a freshly initialised vector, a push changes
\* the capacity only when it finds size = capacity, and then to
\* max(1, 2 * capacity); after N >= 1 pushes the capacity is the smallest
\* power of two >= N (so the capacities taken are 1, 2, 4, ...).
C7_DoublingGrowth ==
    \A hd \in Handle : Live(hd) =>
        /\ Blk(hd).size = 0 => Blk(hd).capacity = 0
        /\ Blk(hd).size >= 1 => Blk(hd).capacity = CeilPow2(Blk(hd).size)
        /\ \A value \in Values(hd), ch \in OracleAt(h[hd]) :
              LET r == cvector_push_back(M, h[hd], value, ch)
              IN  Ok(r) =>
                    cvector_capacity(r.m, r.vec) =
                        IF Blk(hd).size = Blk(hd).capacity
                        THEN Max(1, 2 * Blk(hd).capacity)
                        ELSE Blk(hd).capacity
\* three pushes have taken the capacity through 1, 2 and 4
C7_Witness ==
    \E hd \in Handle : Live(hd) /\ Blk(hd).size = 3 /\ Blk(hd).capacity = 4

\* C8: clone(a, &b) makes b a second block with a's size, capacity,
\* element_size and bytes, and leaves a as it was; and for two vectors a and b,
\* no call on one (push_back, pop_back, insert, remove, set, clear, resize,
\* reserve, shrink_to_fit, free) changes the size, the capacity or any
\* element of the other.
C8_CloneIndependence ==
    /\ \A from \in Handle : Live(from) =>
          \A ch \in OracleNew :
              LET r == cvector_clone(M, h[from], ch)
              IN  Ok(r) => /\ r.vec \notin {NULL, h[from]}
                           /\ r.m.heap[r.vec].size = Blk(from).size
                           /\ r.m.heap[r.vec].capacity = Blk(from).capacity
                           /\ r.m.heap[r.vec].element_size = Blk(from).element_size
                           /\ r.m.heap[r.vec].mem = Blk(from).mem
                           /\ r.m.heap[h[from]] = Blk(from)
    /\ \A hd \in Handle, o \in Handle : (hd # o /\ Live(hd) /\ Live(o)) =>
          /\ \A r \in GrowingCallsOn(M, h[hd]) \cup ShrinkCallsOn(M, h[hd]) :
                r.m.heap[h[o]] = Blk(o)
          /\ \A m1 \in InPlaceCallsOn(M, h[hd]) \cup {cvector_free(M, h[hd])} :
                m1.heap[h[o]] = Blk(o)
\* two vectors with the same header and bytes (as a clone leaves them), of
\* two elements with room for one more call that grows one of them
C8_Witness ==
    \E hd \in Handle, o \in Handle :
        /\ hd # o /\ Live(hd) /\ Live(o) /\ h[hd] # h[o]
        /\ Blk(hd) = Blk(o)
        /\ Blk(hd).size >= 1 /\ Blk(hd).capacity >= 1
        /\ \E r \in GrowingCallsOn(M, h[hd]) :
              r.m.heap[r.vec].mem # Blk(hd).mem /\ r.m.heap[h[o]] = Blk(o)

\* C9: on a vector of size 0, resize(n, v) yields size n with every element
\* equal to v; a following resize(k, _) with k < n yields size k, the elements
\* [0, k) as they were and the same capacity.
C9_ResizeFillThenTruncate ==
    \A hd \in Handle : (Live(hd) /\ Blk(hd).size = 0) =>
        \A n \in Counts, v \in Values(hd), ch \in OracleAt(h[hd]) :
            LET r == cvector_resize(M, h[hd], n, v, ch)
                b1 == r.m.heap[r.vec]
            IN  Ok(r) =>
                  /\ b1.size = n
                  /\ \A i \in 0..(n - 1) : Elem(b1, i) = v
                  /\ \A k \in 0..(n - 1), w \in Values(hd), ch2 \in Oracle :
                        LET r2 == cvector_resize(r.m, r.vec, k, w, ch2)
                            b2 == r2.m.heap[r2.vec]
                        IN  /\ Ok(r2)
                            /\ b2.size = k
                            /\ \A i \in 0..(k - 1) : Elem(b2, i) = Elem(b1, i)
                            /\ b2.capacity = b1.capacity
\* an empty vector holding stale bytes in a capacity of two, which a
\* resize(3, v) fills with three copies of a value unlike the stale bytes
C9_Witness ==
    \E hd \in Handle :
        /\ Live(hd) /\ Blk(hd).size = 0 /\ Blk(hd).capacity = 2
        /\ \E v \in Values(hd), ch \in OracleAt(h[hd]) :
              LET r == cvector_resize(M, h[hd], 3, v, ch)
              IN  /\ Ok(r) /\ r.m.heap[r.vec].size = 3
                  /\ Elem(Blk(hd), 0) # v
                  /\ cvector_size(cvector_resize(r.m, r.vec, 1, v, ch).m, r.vec) = 1

\* C10: get(i) returns NULL when i >= size and a pointer to offset
\* HEADER_SIZE + i * element_size of the block when i < size; a get changes
\* no block and no handle.
C10_GetBounds ==
    /\ \A hd \in Handle : Live(hd) =>
          \A index \in Indices :
              cvector_get(M, h[hd], index) =
                  IF index >= Blk(hd).size
                  THEN NULLPTR
                  ELSE Ptr(h[hd], HEADER_SIZE + index * Blk(hd).element_size)
    /\ ret.got =>
          \/ ret.ptr = NULLPTR
          \/ \E hd \in Handle :
                /\ Live(hd) /\ ret.ptr.base = h[hd]
                /\ ret.ptr.off >= HEADER_SIZE
                /\ ret.ptr.off + Blk(hd).element_size
                      <= HEADER_SIZE + Blk(hd).size * Blk(hd).element_size
\* a get has returned a pointer to the last slot of a full vector of two
\* two-byte elements
C10_Witness ==
    \E hd \in Handle :
        /\ Live(hd) /\ Blk(hd).size = 2 /\ Blk(hd).element_size = 2
        /\ ret.got /\ ret.ptr = Ptr(h[hd], HEADER_SIZE + 2)
        /\ cvector_get(M, h[hd], 2) = NULLPTR

C12_ElementSizeFixed ==
    \A hd \in Handle : Live(hd) =>
        /\ \A r \in GrowingCallsOn(M, h[hd]) \cup ShrinkCallsOn(M, h[hd]) :
              /\ cvector_element_size(r.m, r.vec) = Blk(hd).element_size
              /\ \A o \in Handle : (Live(o) /\ o # hd) =>
                    cvector_element_size(r.m, h[o]) = Blk(o).element_size
        /\ \A m1 \in InPlaceCallsOn(M, h[hd]) :
              \A o \in Handle : Live(o) =>
                  cvector_element_size(m1, h[o]) = Blk(o).element_size
        /\ \A ch \in OracleNew :
              LET r == cvector_clone(M, h[hd], ch)
              IN  Ok(r) => /\ cvector_element_size(r.m, r.vec) = Blk(hd).element_size
                           /\ cvector_element_size(r.m, h[hd]) = Blk(hd).element_size
        /\ \A o \in Handle : Live(o) =>
              LET r == cvector_swap(h[hd], TRUE, h[o])
              IN  /\ cvector_element_size(M, r.vec) = Blk(o).element_size
                  /\ cvector_element_size(M, r.other) = Blk(hd).element_size
\* two vectors of different element sizes, both grown
C12_Witness ==
    \E hd \in Handle, o \in Handle :
        /\ Live(hd) /\ Live(o)
        /\ Blk(hd).element_size = 2 /\ Blk(hd).size = 1 /\ Blk(hd).capacity = 1
        /\ Blk(o).element_size = 1 /\ Blk(o).capacity = 2

\* C13: remove(index) through an absent (NULL) handle, or with index >= size,
\* changes nothing; with index < size it decrements size, keeps capacity,
\* keeps the elements at [0, index) and moves each element at j in
\* (index, old size) to j - 1.
C13_RemoveShiftsDown ==
    /\ \A index \in Indices : cvector_remove(M, NULL, index) = M
    /\ \A hd \in Handle : Live(hd) =>
          \A index \in Indices :
              LET m1 == cvector_remove(M, h[hd], index)
                  old == Blk(hd)
                  new == m1.heap[h[hd]]
              IN  IF index >= old.size
                  THEN m1 = M
                  ELSE /\ new.size = old.size - 1
                       /\ new.capacity = old.capacity
                       /\ \A j \in 0..(index - 1) : Elem(new, j) = Elem(old, j)
                       /\ \A j \in (index + 1)..(old.size - 1) :
                             Elem(new, j - 1) = Elem(old, j)
                       /\ \A x \in Addr \ {h[hd]} : m1.heap[x] = heap[x]
\* a vector of three one-byte elements whose middle element differs from its
\* neighbours, beside an absent handle
C13_Witness ==
    \E hd \in Handle, o \in Handle :
        /\ Live(hd) /\ h[o] = NULL
        /\ Blk(hd).size = 3
        /\ Elem(Blk(hd), 0) # Elem(Blk(hd), 1)
        /\ Elem(Blk(hd), 1) # Elem(Blk(hd), 2)
        /\ cvector_remove(M, h[hd], 0).heap[h[hd]].size = 2

\* C14: with four-byte elements, init then push_back of 1, 2, 3 gives size 3
\* and capacity 4, and get(1) reads 2; remove(0) gives [2, 3] with size 2;
\* insert(0, 9) gives [9, 2, 3] with size 3; a clone into an absent handle
\* still yields [9, 2, 3] after the original is freed.  Checked for every
\* x, y, z, w of ScnArgs in place of 1, 2, 3, 9.
C14_Scenario ==
    LET v == h["a"]
        u == h["b"]
        x == IntBytes(pc.args[1])
        y == IntBytes(pc.args[2])
        z == IntBytes(pc.args[3])
        w == IntBytes(pc.args[4])
        Read(vec, i) == Load(MS, vec, cvector_get(MS, vec, i).off, Len(IntBytes(0)))
    IN  /\ ~oob
        /\ pc.at = 4 => /\ heap[v].size = 3 /\ heap[v].capacity = 4
                        /\ heap[v].element_size = 4
                        /\ Elems(heap[v]) = <<x, y, z>>
        /\ pc.at = 5 => /\ ret.got /\ ret.ptr = Ptr(v, HEADER_SIZE + 4)
                        /\ Load(MS, ret.ptr.base, ret.ptr.off, 4) = y
        /\ pc.at = 6 => /\ heap[v].size = 2 /\ Elems(heap[v]) = <<y, z>>
        /\ pc.at = 7 => /\ heap[v].size = 3 /\ Elems(heap[v]) = <<w, y, z>>
        /\ pc.at = 8 => /\ u \in Addr /\ u # v
                        /\ Elems(heap[v]) = <<w, y, z>>
                        /\ Elems(heap[u]) = <<w, y, z>>
        /\ pc.at = 9 => /\ v = DANGLING /\ u \in Addr /\ heap[u].live
                        /\ \A x1 \in Addr \ {u} : ~heap[x1].live
                        /\ heap[u].size = 3
                        /\ <<Read(u, 0), Read(u, 1), Read(u, 2)>> = <<w, y, z>>
\* the program run to its end on 1, 2, 3, 9: the original is freed and the
\* clone reads 9, 2, 3
C14_Witness ==
    /\ pc.at = 9 /\ pc.args = <<1, 2, 3, 9>>
    /\ h["a"] = DANGLING /\ h["b"] \in Addr
    /\ Elems(heap[h["b"]]) = <<IntBytes(9), IntBytes(2), IntBytes(3)>>

\* C15: shrink_to_fit on a vector with size <= capacity leaves capacity equal
\* to size, and size and the elements at [0, size) as they were, also when
\* capacity equalled size before.
C15_ShrinkToFit ==
    \A hd \in Handle : Live(hd) =>
        \A r \in ShrinkCallsOn(M, h[hd]) :
            /\ cvector_capacity(r.m, r.vec) = Blk(hd).size
            /\ cvector_size(r.m, r.vec) = Blk(hd).size
            /\ Elems(r.m.heap[r.vec]) = Elems(Blk(hd))
            /\ r.m.heap[r.vec].len = HEADER_SIZE + Blk(hd).size * Blk(hd).element_size
\* a vector with spare capacity and two different elements, beside a vector
\* whose capacity equals its size
C15_Witness ==
    \E hd \in Handle, o \in Handle :
        /\ Live(hd) /\ Live(o)
        /\ Blk(hd).capacity = 4 /\ Blk(hd).size = 2
        /\ Elem(Blk(hd), 0) # Elem(Blk(hd), 1)
        /\ Blk(o).capacity = Blk(o).size
        /\ ShrinkCallsOn(M, h[hd]) # {} /\ ShrinkCallsOn(M, h[o]) # {}

\* C16: the byte length of every live buffer's allocation is
\* HEADER_SIZE + capacity * element_size after every call, and a call that
\* does not reallocate leaves the length as it was.
C16_AllocationLength ==
    /\ \A x \in Addr : heap[x].live =>
          heap[x].len = HEADER_SIZE + heap[x].capacity * heap[x].element_size
    /\ \A hd \in Handle : Live(hd) =>
          \A m1 \in InPlaceCallsOn(M, h[hd]) : m1.heap[h[hd]].len = Blk(hd).len

\* C17: reserve(n) with capacity >= n changes nothing; with capacity < n it
\* sets capacity to n and leaves size, element_size and every element at
\* [0, size) as they were, each still inside the allocation.
C17_ReserveFrame ==
    \A hd \in Handle : Live(hd) =>
        \A n \in SizeArgs, ch \in OracleAt(h[hd]) :
            LET r == cvector_reserve(M, h[hd], n, ch)
                old == Blk(hd)
                es == old.element_size
            IN  Ok(r) =>
                    IF old.capacity >= n
                    THEN r = Res(M, h[hd])
                    ELSE /\ cvector_capacity(r.m, r.vec) = n
                         /\ cvector_size(r.m, r.vec) = old.size
                         /\ cvector_element_size(r.m, r.vec) = es
                         /\ \A j \in 0..(old.size - 1) :
                               /\ InBlock(r.m, r.vec, HEADER_SIZE + j * es, es)
                               /\ Load(r.m, r.vec, HEADER_SIZE + j * es, es) = Elem(old, j)

\* C18: insert(i, v) with i <= size = s leaves size s + 1, element i equal to
\* v, the elements at [0, i) as they were and each element j in (i, s] equal
\* to the old element j - 1; with i = s the result is that of push_back(v) on
\* the same state; capacity is doubled (0 becomes 1) first exactly when
\* size = capacity held.
C18_InsertShiftsUp ==
    \A hd \in Handle : Live(hd) =>
        \A i \in 0..Blk(hd).size, v \in Values(hd), ch \in OracleAt(h[hd]) :
            LET r == cvector_insert(M, h[hd], i, v, ch)
                old == Blk(hd)
                new == r.m.heap[r.vec]
                s == old.size
            IN  Ok(r) =>
                    /\ new.size = s + 1
                    /\ Elem(new, i) = v
                    /\ \A j \in 0..(i - 1) : Elem(new, j) = Elem(old, j)
                    /\ \A j \in (i + 1)..s : Elem(new, j) = Elem(old, j - 1)
                    /\ new.capacity = IF s = old.capacity
                                      THEN Max(1, 2 * old.capacity)
                                      ELSE old.capacity
                    /\ i = s => r = cvector_push_back(M, h[hd], v, ch)
\* a full vector of two different elements, where an insert at the front
\* grows the buffer, may move it, and shifts both elements
C18_Witness ==
    \E hd \in Handle :
        /\ Live(hd) /\ Blk(hd).size = 2 /\ Blk(hd).capacity = 2
        /\ Elem(Blk(hd), 0) # Elem(Blk(hd), 1)
        /\ \E v \in Values(hd), ch \in OracleAt(h[hd]) :
              LET r == cvector_insert(M, h[hd], 0, v, ch)
              IN  Ok(r) /\ r.vec # h[hd] /\ cvector_capacity(r.m, r.vec) = 4

\* C19: pop_back has no emptiness check: on a vector of size 0 it stores
\* size 2^SIZE_BITS - 1 and changes nothing else, so that size > capacity; a
\* vector has size > capacity only after such a pop.
C19_PopBackUnderflow ==
    \A hd \in Handle : Live(hd) =>
        /\ Blk(hd).size = 0 =>
              LET m1 == cvector_pop_back(M, h[hd])
              IN  /\ m1 = [M EXCEPT !.heap[h[hd]].size = SizeMod - 1]
                  /\ cvector_capacity(m1, h[hd]) = Blk(hd).capacity
                  /\ cvector_size(m1, h[hd]) > cvector_capacity(m1, h[hd])
        /\ Blk(hd).size > Blk(hd).capacity => Blk(hd).size = SizeMod - 1
\* an emptied vector of capacity two has been popped once more
C19_Witness ==
    \E hd \in Handle :
        /\ Live(hd) /\ Blk(hd).size = SizeMod - 1 /\ Blk(hd).capacity = 2

\* C20: in every run of in-contract calls, every element write or move by
\* push_back, insert, remove and resize targets a slot below the capacity and
\* stays inside the buffer's allocation.
C20_WritesInBounds ==
    /\ ~oob
    /\ \A hd \in Handle : Live(hd) =>
          /\ \A r \in GrowingCallsOn(M, h[hd]) :
                /\ ~r.m.oob
                /\ cvector_size(r.m, r.vec) <= cvector_capacity(r.m, r.vec)
          /\ \A index \in Indices : ~cvector_remove(M, h[hd], index).oob

====
